---- MODULE Spec2Model ----
(***************************************************************************)
(* Model of the Shopify CLI job orchestration of the server                *)
(* (src/unnamed/part_000): the job store with its two backends, the        *)
(* create/status/complete-setup handlers, the job-start path, the polling  *)
(* monitor with its ceiling timer, and the abandoned-job sweep.            *)
(*                                                                         *)
(* Every `await` of the source is a point where other callbacks may run,   *)
(* so every action below is the synchronous run of one callback from one   *)
(* suspension point to the next.  A Firestore write takes effect at the    *)
(* moment it is issued (or fails and changes nothing).                     *)
(*                                                                         *)
(* Text is modelled as a sequence of lines, a line as a sequence of        *)
(* chunks (strings without inner structure); the substrings the code       *)
(* searches for are recorded, per chunk, in the tables Frag and FragLower. *)
(***************************************************************************)
EXTENDS Integers, Sequences, FiniteSets, TLC

VARIABLES
    firestore,          \* getFirestore() returns a database (admin app initialised)
    inMemoryJobs,       \* the Map inMemoryJobs: jobId -> record or NoJob
    durableJobs,        \* Firestore collection app_creation_jobs: jobId -> record or NoJob
    activeJobs,         \* the Map activeJobs: jobId -> TRUE when an entry exists
    age,                \* 1 when now - startTime exceeds the 30 minutes of the sweep, else 0
    startPc,            \* position of startShopifyAppCreationProcess for the job
    outputBuffer,       \* monitor closure: outputBuffer
    authUrl,            \* monitor closure: authUrl
    isWaitingForAuth,   \* monitor closure: isWaitingForAuth
    isProcessComplete,  \* monitor closure: isProcessComplete
    pollInterval,       \* TRUE while the setInterval of the monitor is scheduled
    ceiling,            \* the 25-minute setTimeout: "none", "pending", "fired"
    tick,               \* in-flight runs of the interval callback: job -> slot -> locals
    polls,              \* number of interval callbacks started for the job
    resp,               \* the last response of POST /api/create-shopify-app
    hist,               \* observation history of the job (what the monitor has seen and done)
    gen,                \* POST /api/generate-code: position, locals and response of the request
    proj                \* Firebase Storage: the bucket, the stored projects, the runs saving one

vars == <<firestore, inMemoryJobs, durableJobs, activeJobs, age, startPc,
          outputBuffer, authUrl, isWaitingForAuth, isProcessComplete,
          pollInterval, ceiling, tick, polls, resp, hist, gen,
          proj>>

storeVars == <<inMemoryJobs, durableJobs>>
monitorVars == <<outputBuffer, authUrl, isWaitingForAuth, isProcessComplete,
                 pollInterval, ceiling, tick, polls>>

----------------------------------------------------------------------------
(* Bounds *)

MaxTicks == 2       \* interval callbacks of one job that may be in flight together
MaxPolls == 2       \* interval callbacks started per job
MaxNameLen == 3     \* length of the app names the create handler is given

Jobs == {"j1"}
Users == {"u1", "u2"}
Owner == "u1"
Null == "null"
NoJob == [none |-> TRUE]
Undefined == "undefined"

----------------------------------------------------------------------------
(* App-name validation                                                     *)

\* one character of each kind the pattern tells apart: Alnum for [a-zA-Z0-9],
\* Tab for the whitespace other than the space (\t, \n, ...), Bang for the rest
Alnum == "a"
Space == " "
Dash == "-"
Tab == "\t"
Bang == "!"

Chars == {Alnum, Space, Dash, Tab, Bang}
Whitespace == {Space, Tab}

Names == UNION {[1..n -> Chars] : n \in 0..MaxNameLen}

RECURSIVE TrimLeft(_)
TrimLeft(s) ==
    IF s # <<>> /\ Head(s) \in Whitespace THEN TrimLeft(Tail(s)) ELSE s

RECURSIVE TrimRight(_)
TrimRight(s) ==
    IF s # <<>> /\ s[Len(s)] \in Whitespace
    THEN TrimRight(SubSeq(s, 1, Len(s) - 1)) ELSE s

\* String.prototype.trim
Trim(s) == TrimRight(TrimLeft(s))

\* the character class [a-zA-Z0-9\s\-] of validPattern
PatternClass == {Alnum, Dash} \cup Whitespace

\* the same test with the dash left out of the class
validPatternNoDash(s) ==
    s # <<>> /\ \A i \in 1..Len(s) : s[i] \in {Alnum} \cup Whitespace

\* /^[a-zA-Z0-9\s\-]+$/.test(s)
validPattern(s) == s # <<>> /\ \A i \in 1..Len(s) : s[i] \in PatternClass

\* !appName || !appName.trim()
NameMissing(appName) == appName = <<>> \/ Trim(appName) = <<>>

\* the two early returns of the create handler: "ok", or the 400 it answers
ValidateRequest(appName) ==
    IF NameMissing(appName) THEN "required"
    ELSE IF ~validPattern(Trim(appName)) THEN "invalid"
    ELSE "ok"

----------------------------------------------------------------------------
(* Text: lines, chunks and the substrings the code looks for               *)

U1 == "https://partners.shopify.com/abc123"
U2 == "https://partners.shopify.com/oauth/xyz"
GenericUrl == "https://partners.shopify.com/"

PhraseCreate == "To create your app, visit:"
PhraseVisit == "Please visit the following URL to authenticate:"

LSandbox == <<"E2B sandbox created successfully">>
LInit == <<"Initializing Shopify CLI...">>
LRunningCmd == <<"Running: shopify app init <appName> --template=typescript-react --headless --no-color">>
LRunning == <<"Running shopify app init <appName>...">>
LAuthRequired(url) == <<"Authentication required:", url>>
LCreated == <<"Shopify app created successfully!">>
LGenerated == <<"Project files have been generated">>
LSetup == <<"Setup complete!">>
LPaused == <<"CLI process paused - may require authentication">>

LDownload == <<"Downloading template">>
LSuccess == <<"App created with success">>
LVisit(url) == <<PhraseVisit, url>>
LLogin == <<"Please login first">>
LUnknown == <<"Unknown error">>

\* case-sensitive substrings of a chunk, among those the code tests with includes()
Frag(c) ==
    CASE c = "E2B sandbox created successfully" -> {"success"}
      [] c = "Shopify app created successfully!" -> {"success"}
      [] c = "App created with success" -> {"success"}
      [] c = "Setup complete!" -> {"complete"}
      [] c = "Authentication required:" -> {"Authentication"}
      [] c = "CLI process paused - may require authentication" -> {"auth"}
      [] c = PhraseVisit -> {"auth"}
      [] c = "Please login first" -> {"login"}
      [] c = U2 -> {"auth"}
      [] c = "package.json" -> {"package.json"}
      [] c = "app" -> {"app"}
      [] c = "shopify.app.toml" -> {"app"}
      [] OTHER -> {}

\* substrings of the lower-cased chunk, among the keywords of determineStage
FragLower(c) ==
    CASE c = "E2B sandbox created successfully" -> {"success"}
      [] c = "Shopify app created successfully!" -> {"success"}
      [] c = "App created with success" -> {"success"}
      [] c = "Initializing Shopify CLI..." -> {"initializing"}
      [] c = "Authentication required:" -> {"authentication", "auth"}
      [] c = "CLI process paused - may require authentication" -> {"authentication", "auth"}
      [] c = PhraseVisit -> {"visit", "auth"}
      [] c = PhraseCreate -> {"visit"}
      [] c = U1 -> {"partners.shopify.com"}
      [] c = U2 -> {"partners.shopify.com", "auth"}
      [] c = GenericUrl -> {"partners.shopify.com"}
      [] c = "Creating app" -> {"creating app"}
      [] c = "Authenticating with Shopify" -> {"authenticating", "auth"}
      [] c = "Finalizing app" -> {"finalizing"}
      [] c = "Completing setup" -> {"completing"}
      [] c = "Installing dependencies" -> {"installing dependencies"}
      [] c = "Done" -> {"done"}
      [] OTHER -> {}

RECURSIVE Flatten(_)
\* the chunks of a text, in order (lines joined)
Flatten(text) ==
    IF text = <<>> THEN <<>> ELSE Head(text) \o Flatten(Tail(text))

\* text.includes(kw), case-sensitive
Includes(text, kw) ==
    LET cs == Flatten(text) IN \E i \in 1..Len(cs) : kw \in Frag(cs[i])

\* text.toLowerCase().includes(kw)
IncludesLower(text, kw) ==
    LET cs == Flatten(text) IN \E i \in 1..Len(cs) : kw \in FragLower(cs[i])

\* the five phrase patterns of extractAuthUrl, in the order of the array
Phrases == <<"To create your app, visit:",
             "Please visit the following URL to authenticate:",
             "Visit this URL to authenticate:",
             "Authentication URL:",
             "Open this link:">>

\* https:\/\/partners\.shopify\.com\/[^\s\n]+ : a partner URL with a non-empty path
PartnerUrlWithPath(c) == c \in {U1, U2}
\* https:\/\/partners\.shopify\.com\/[^\s\n]*auth[^\s\n]*
PartnerUrlWithAuth(c) == c = U2

Min(S) == CHOOSE x \in S : \A y \in S : x <= y

\* positions where pattern k matches the chunks cs; the capture is the URL chunk
MatchAt(cs, k) ==
    IF k <= Len(Phrases)
    THEN {i \in 1..Len(cs) : cs[i] = Phrases[k] /\ i < Len(cs) /\ PartnerUrlWithPath(cs[i + 1])}
    ELSE {i \in 1..Len(cs) : PartnerUrlWithAuth(cs[i])}

Capture(cs, k) ==
    LET i == Min(MatchAt(cs, k)) IN IF k <= Len(Phrases) THEN cs[i + 1] ELSE cs[i]

NumPatterns == Len(Phrases) + 1

\* extractAuthUrl: the capture of the first pattern that matches, or null
extractAuthUrl(text) ==
    LET cs == Flatten(text)
        ks == {k \in 1..NumPatterns : MatchAt(cs, k) # {}}
    IN IF ks = {} THEN Null ELSE Capture(cs, Min(ks))

\* a classifier that looks for the completion keywords before the others
determineStageCompletedFirst(text) ==
    IF IncludesLower(text, "success") \/ IncludesLower(text, "completed")
       \/ IncludesLower(text, "done") THEN "completed"
    ELSE IF IncludesLower(text, "creating app") \/ IncludesLower(text, "setting up")
       \/ IncludesLower(text, "initializing") THEN "creating"
    ELSE IF IncludesLower(text, "authentication") \/ IncludesLower(text, "auth")
       \/ IncludesLower(text, "visit") \/ IncludesLower(text, "partners.shopify.com")
       THEN "waiting_auth"
    ELSE IF IncludesLower(text, "authenticating") \/ IncludesLower(text, "completing")
       THEN "authenticating"
    ELSE IF IncludesLower(text, "finalizing") \/ IncludesLower(text, "finishing")
       \/ IncludesLower(text, "installing dependencies") THEN "finalizing"
    ELSE "creating"

\* determineStage
determineStage(text) ==
    IF IncludesLower(text, "creating app") \/ IncludesLower(text, "setting up")
       \/ IncludesLower(text, "initializing") THEN "creating"
    ELSE IF IncludesLower(text, "authentication") \/ IncludesLower(text, "auth")
       \/ IncludesLower(text, "visit") \/ IncludesLower(text, "partners.shopify.com")
       THEN "waiting_auth"
    ELSE IF IncludesLower(text, "authenticating") \/ IncludesLower(text, "completing")
       THEN "authenticating"
    ELSE IF IncludesLower(text, "finalizing") \/ IncludesLower(text, "finishing")
       \/ IncludesLower(text, "installing dependencies") THEN "finalizing"
    ELSE IF IncludesLower(text, "success") \/ IncludesLower(text, "completed")
       \/ IncludesLower(text, "done") THEN "completed"
    ELSE "creating"

\* trimmedLine.substring(0, 50): a chunk stands for at most 50 characters
PrefixChunks == 1
Prefix(line) == SubSeq(line, 1, IF Len(line) < PrefixChunks THEN Len(line) ELSE PrefixChunks)

\* existing.includes(p) for a prefix p: p occurs as a run of chunks of existing
LineIncludes(existing, p) ==
    \E i \in 0..(Len(existing) - Len(p)) :
        \A k \in 1..Len(p) : existing[i + k] = p[k]

RECURSIVE NewLines(_, _)
\* the lines of the log that no line of the buffer includes by prefix (lines 1126-1131);
\* the buffer is not extended while the loop runs
NewLines(allLines, buffer) ==
    IF allLines = <<>> THEN <<>>
    ELSE LET l == Head(allLines)
             known == \E i \in 1..Len(buffer) : LineIncludes(buffer[i], Prefix(l))
         IN (IF known THEN <<>> ELSE <<l>>) \o NewLines(Tail(allLines), buffer)

----------------------------------------------------------------------------
(* JobStore: createAppCreationJob, updateAppCreationJob, getAppCreationJob  *)

\* jobData of createAppCreationJob.  outRef is not a field of the source: it
\* records that `output` is the monitor's outputBuffer array itself (the
\* in-memory merge stores the reference it is given), and then the field
\* output is kept empty and read through ResolveOutput.
JobData(jobId, userId, appName) ==
    [jobId |-> jobId, userId |-> userId, appName |-> appName,
     status |-> "running", stage |-> "initializing",
     createdAt |-> "iso", updatedAt |-> "iso",
     output |-> <<>>, outRef |-> FALSE,
     authUrl |-> Null, error |-> Null, sandboxId |-> Null, appData |-> Null]

\* firestoreJobData: the same with server timestamps
FirestoreJobData(jobId, userId, appName) ==
    [JobData(jobId, userId, appName) EXCEPT
        !.createdAt = "serverTimestamp", !.updatedAt = "serverTimestamp"]

\* a create that stores nothing when the Firestore set() fails
CreateJobNoFallback(jobId, userId, appName, setOk) ==
    IF ~firestore THEN <<JobData(jobId, userId, appName), NoJob>>
    ELSE IF setOk THEN <<NoJob, FirestoreJobData(jobId, userId, appName)>>
    ELSE <<NoJob, NoJob>>

\* a create whose failed set() had stored the document all the same
CreateJobBoth(jobId, userId, appName, setOk) ==
    IF ~firestore THEN <<JobData(jobId, userId, appName), NoJob>>
    ELSE IF setOk THEN <<NoJob, FirestoreJobData(jobId, userId, appName)>>
    ELSE <<JobData(jobId, userId, appName), FirestoreJobData(jobId, userId, appName)>>

\* createAppCreationJob for one key: the pair <<in-memory entry, durable entry>>
\* after the call; setOk tells whether the Firestore set() succeeds
CreateJob(jobId, userId, appName, setOk) ==
    IF ~firestore THEN <<JobData(jobId, userId, appName), NoJob>>
    ELSE IF setOk THEN <<NoJob, FirestoreJobData(jobId, userId, appName)>>
    ELSE <<JobData(jobId, userId, appName), NoJob>>

\* {...existingJob, ...updates}
Merge(rec, updates) ==
    [f \in DOMAIN rec |-> IF f \in DOMAIN updates THEN updates[f] ELSE rec[f]]

\* the in-memory branch: merge, refresh updatedAt, keep the array reference
MemUpdate(rec, updates) ==
    LET m == [Merge(rec, updates) EXCEPT !.updatedAt = "iso"]
    IN IF m.outRef THEN [m EXCEPT !.output = <<>>] ELSE m

\* the Firestore branch: doc.update() with a copy of the data
DurUpdate(rec, updates) ==
    [Merge(rec, updates) EXCEPT !.updatedAt = "serverTimestamp", !.outRef = FALSE]

\* an update that creates the Firestore document when there is none
UpdateJobUpsert(memRec, durRec, updates, ok) ==
    IF memRec # NoJob THEN <<MemUpdate(memRec, updates), durRec>>
    ELSE IF firestore /\ ok
         THEN <<memRec, DurUpdate(IF durRec # NoJob THEN durRec
                                  ELSE FirestoreJobData("j1", Owner, <<>>), updates)>>
    ELSE <<memRec, durRec>>

\* updateAppCreationJob for one key: the pair <<in-memory entry, durable entry>>
\* after the call; ok tells whether the Firestore update() succeeds
UpdateJob(memRec, durRec, updates, ok) ==
    IF memRec # NoJob THEN <<MemUpdate(memRec, updates), durRec>>
    ELSE IF firestore /\ ok /\ durRec # NoJob THEN <<memRec, DurUpdate(durRec, updates)>>
    ELSE <<memRec, durRec>>

\* an update that is applied to the record of every job
updateAppCreationJobAll(jobId, updates, ok) ==
    LET r == [j \in DOMAIN inMemoryJobs |->
                 UpdateJob(inMemoryJobs[j], durableJobs[j], updates, ok)]
    IN /\ inMemoryJobs' = [j \in DOMAIN inMemoryJobs |-> r[j][1]]
       /\ durableJobs' = [j \in DOMAIN inMemoryJobs |-> r[j][2]]

updateAppCreationJob(jobId, updates, ok) ==
    LET r == UpdateJob(inMemoryJobs[jobId], durableJobs[jobId], updates, ok)
    IN /\ inMemoryJobs' = [inMemoryJobs EXCEPT ![jobId] = r[1]]
       /\ durableJobs' = [durableJobs EXCEPT ![jobId] = r[2]]

\* Timestamps are kept relative to the present: "iso" and "serverTimestamp"
\* are the current time as new Date().toISOString() and as the server
\* timestamp of Firestore; the Old values are any earlier time.
Aged(t) == IF t = "iso" THEN "isoOld"
           ELSE IF t = "serverTimestamp" THEN "serverTimestampOld" ELSE t

\* timestamp.toDate().toISOString()
ToIso(t) == IF t = "serverTimestamp" THEN "iso"
            ELSE IF t = "serverTimestampOld" THEN "isoOld"
            ELSE IF t = "serverTimestampExpired" THEN "isoExpired" ELSE t

\* the output array a reader of the record sees
ResolveOutput(rec, buffer) == IF rec.outRef THEN buffer ELSE rec.output

\* a get that looks in memory only
GetJobMemoryOnly(mem, dur, buffers, jobId, readOk) ==
    IF mem[jobId] # NoJob
    THEN [mem[jobId] EXCEPT !.output = ResolveOutput(mem[jobId], buffers[jobId]),
                            !.outRef = FALSE]
    ELSE NoJob

\* getAppCreationJob over given store contents; readOk tells whether the
\* Firestore get() succeeds
GetJob(mem, dur, buffers, jobId, readOk) ==
    IF mem[jobId] # NoJob
    THEN [mem[jobId] EXCEPT !.output = ResolveOutput(mem[jobId], buffers[jobId]),
                            !.outRef = FALSE]
    ELSE IF ~firestore THEN NoJob
    ELSE IF ~readOk THEN NoJob
    ELSE IF dur[jobId] = NoJob THEN NoJob
    ELSE [dur[jobId] EXCEPT !.createdAt = ToIso(@), !.updatedAt = ToIso(@)]

getAppCreationJob(jobId, readOk) ==
    GetJob(inMemoryJobs, durableJobs, outputBuffer, jobId, readOk)

----------------------------------------------------------------------------
(* Initial state                                                           *)

IdleTick == [pc |-> "idle", isProcessRunning |-> FALSE, newOutputLines |-> <<>>,
             found |-> FALSE]

NoResp == [op |-> "none", code |-> 0, name |-> <<>>, job |-> Null]

\* POST /api/generate-code before any request: no locals, no response
NoResponse == [status |-> 0, success |-> FALSE, response |-> <<>>,
               previewUrl |-> Null, sandboxId |-> Null, projectId |-> Null,
               error |-> Null]

GenIdle == [pc |-> "idle", prompt |-> "", code |-> <<>>, files |-> <<>>,
            next |-> 1, failed |-> "none", response |-> NoResponse]

\* the runs of the naming and saving part of POST /api/generate-code
MaxRuns == 2
Runs == 1..MaxRuns
\* the ids generateProjectId hands out, in the order of the calls (a run
\* takes one id when it starts to save and one more when the save fails)
ProjectIds == 1..(2 * MaxRuns)
NoProject == [none |-> TRUE]

\* after: the runs that had returned when this one started
RunIdle == [pc |-> "idle", number |-> 0, id |-> 0, next |-> 1, projectId |-> 0,
            after |-> {}]

\* before initializeFirebaseAdmin has run: bucket not assigned, nothing stored
ProjIdle == [bucket |-> "unset", store |-> [p \in ProjectIds |-> NoProject],
             nextId |-> 1, run |-> [r \in Runs |-> RunIdle]]

InitStateOver(J) ==
    /\ inMemoryJobs = [j \in J |-> NoJob]
    /\ durableJobs = [j \in J |-> NoJob]
    /\ activeJobs = [j \in J |-> FALSE]
    /\ age = [j \in J |-> 0]
    /\ startPc = [j \in J |-> "none"]
    /\ outputBuffer = [j \in J |-> <<>>]
    /\ authUrl = [j \in J |-> Null]
    /\ isWaitingForAuth = [j \in J |-> FALSE]
    /\ isProcessComplete = [j \in J |-> FALSE]
    /\ pollInterval = [j \in J |-> FALSE]
    /\ ceiling = [j \in J |-> "none"]
    /\ tick = [j \in J |-> [t \in 1..MaxTicks |-> IdleTick]]
    /\ polls = [j \in J |-> 0]
    /\ gen = GenIdle
    /\ proj = ProjIdle

InitState == InitStateOver(Jobs)

InitCommon ==
    /\ InitState
    /\ resp = NoResp
    /\ hist = [j \in Jobs |-> [markers |-> FALSE, probes |-> 0]]

Init == firestore \in BOOLEAN /\ InitCommon

----------------------------------------------------------------------------
(* Handlers                                                                *)

\* POST /api/create-shopify-app.  The handler awaits createAppCreationJob and
\* calls startShopifyAppCreationProcess without awaiting it, which runs up to
\* its first suspension (the first updateAppCreationJob) before res.json.
CreateShopifyApp(appName, userId, jobId, setOk, updOk) ==
    /\ startPc[jobId] = "none"      \* jobId is the id generateJobId would return
    /\ LET v == ValidateRequest(appName) IN
       IF v # "ok"
       THEN /\ resp' = [op |-> "create", code |-> 400, name |-> appName, job |-> Null]
            /\ UNCHANGED <<inMemoryJobs, durableJobs, startPc>>
       ELSE LET c == CreateJob(jobId, userId, Trim(appName), setOk)
                u == UpdateJob(c[1], c[2], [stage |-> "initializing", status |-> "running"], updOk)
            IN /\ inMemoryJobs' = [inMemoryJobs EXCEPT ![jobId] = u[1]]
               /\ durableJobs' = [durableJobs EXCEPT ![jobId] = u[2]]
               /\ startPc' = [startPc EXCEPT ![jobId] = "sandbox"]
               /\ resp' = [op |-> "create", code |-> 200, name |-> appName, job |-> jobId]
    /\ UNCHANGED <<firestore, gen, proj, activeJobs, age, monitorVars, hist>>

\* a route that answers 200 to every requester of an existing job
StatusCodeAnyUser(jobData, userId) ==
    IF jobData = NoJob THEN 404 ELSE 200

\* the status code both job routes answer with after reading the job
StatusCode(jobData, userId) ==
    IF jobData = NoJob THEN 404
    ELSE IF jobData.userId # userId THEN 403
    ELSE 200

\* the JSON bodies of the 404 and 403 answers
NotFoundBody == [error |-> "Job not found", message |-> "The requested job does not exist"]
AccessDeniedBody == [error |-> "Access denied", message |-> "You do not have access to this job"]

\* what POST /api/complete-app-setup does to the store (the 404 and 403
\* answers change nothing)
AcknowledgeSetup(jobId, userId, readOk, updOk) ==
    IF StatusCode(getAppCreationJob(jobId, readOk), userId) # 200
    THEN UNCHANGED storeVars
    ELSE updateAppCreationJob(jobId, [stage |-> "finalizing", status |-> "running"], updOk)

\* POST /api/complete-app-setup, the answer not observed
CompleteAppSetup(jobId, userId, readOk, updOk) ==
    /\ AcknowledgeSetup(jobId, userId, readOk, updOk)
    /\ UNCHANGED <<firestore, gen, proj, activeJobs, age, startPc, monitorVars, resp, hist>>

\* POST /api/complete-app-setup with its answer
CompleteAppSetupAnswered(jobId, userId, readOk, updOk) ==
    /\ AcknowledgeSetup(jobId, userId, readOk, updOk)
    /\ LET code == StatusCode(getAppCreationJob(jobId, readOk), userId) IN
       resp' = [op |-> "complete", code |-> code, name |-> <<>>, job |-> jobId,
                user |-> userId,
                body |-> IF code = 404 THEN NotFoundBody
                         ELSE IF code = 403 THEN AccessDeniedBody
                         ELSE [success |-> TRUE,
                               message |-> "App setup completion acknowledged"]]
    /\ UNCHANGED <<firestore, gen, proj, activeJobs, age, startPc, monitorVars, hist>>

\* the body of the 200 answer of the status route
StatusView(jobData) ==
    [success |-> TRUE, jobId |-> jobData.jobId, status |-> jobData.status,
     stage |-> jobData.stage, output |-> jobData.output, authUrl |-> jobData.authUrl,
     error |-> jobData.error, appData |-> jobData.appData,
     createdAt |-> jobData.createdAt, updatedAt |-> jobData.updatedAt]

\* GET /api/app-creation-status/:jobId
AppCreationStatus(jobId, userId, readOk) ==
    /\ LET jobData == getAppCreationJob(jobId, readOk)
           code == StatusCode(jobData, userId)
       IN resp' = [op |-> "status", code |-> code, name |-> <<>>, job |-> jobId,
                   user |-> userId,
                   body |-> IF code = 404 THEN NotFoundBody
                            ELSE IF code = 403 THEN AccessDeniedBody
                            ELSE StatusView(jobData)]
    /\ UNCHANGED <<firestore, gen, proj, storeVars, activeJobs, age, startPc, monitorVars, hist>>

----------------------------------------------------------------------------
(* startShopifyAppCreationProcess                                          *)

\* the catch block: the failure is written and the active entry is dropped
StartCatch(jobId, updOk) ==
    /\ updateAppCreationJob(jobId,
            [status |-> "failed", stage |-> "error", error |-> "start failed"], updOk)
    /\ activeJobs' = [activeJobs EXCEPT ![jobId] = FALSE]
    /\ startPc' = [startPc EXCEPT ![jobId] = "failed"]

\* Sandbox.create resolves (or rejects): the job is registered and `creating` is written
StartSandboxCreated(jobId, ok, updOk) ==
    /\ startPc[jobId] = "sandbox"
    /\ IF ok
       THEN /\ activeJobs' = [activeJobs EXCEPT ![jobId] = TRUE]
            /\ updateAppCreationJob(jobId,
                   [stage |-> "creating", sandboxId |-> "sbx",
                    output |-> <<LSandbox, LInit>>, outRef |-> FALSE], updOk)
            /\ startPc' = [startPc EXCEPT ![jobId] = "cd"]
       ELSE StartCatch(jobId, updOk)
    /\ UNCHANGED <<firestore, gen, proj, age, monitorVars, resp, hist>>

\* `cd /tmp` resolves: the command line is written to the output
StartCdDone(jobId, ok, updOk) ==
    /\ startPc[jobId] = "cd"
    /\ IF ok
       THEN /\ updateAppCreationJob(jobId,
                   [output |-> <<LSandbox, LInit, LRunningCmd>>, outRef |-> FALSE], updOk)
            /\ startPc' = [startPc EXCEPT ![jobId] = "cli"]
            /\ UNCHANGED activeJobs
       ELSE StartCatch(jobId, updOk)
    /\ UNCHANGED <<firestore, gen, proj, age, monitorVars, resp, hist>>

\* the background wrapper command is launched
StartCliLaunched(jobId, ok, updOk) ==
    /\ startPc[jobId] = "cli"
    /\ IF ok
       THEN /\ startPc' = [startPc EXCEPT ![jobId] = "touch"]
            /\ UNCHANGED <<storeVars, activeJobs>>
       ELSE StartCatch(jobId, updOk)
    /\ UNCHANGED <<firestore, gen, proj, age, monitorVars, resp, hist>>

\* a seed shorter than the output the start path has written
SeedBufferShort == <<LRunning>>

\* a seed without the line 'Initializing Shopify CLI...'
SeedBufferNoInit == <<LSandbox, LRunning>>

\* the lines outputBuffer starts with
SeedBuffer == <<LSandbox, LInit, LRunning>>

\* `touch` resolves and monitorShopifyCliProcess sets up its closure and timers
StartMonitor(jobId, ok, updOk) ==
    /\ startPc[jobId] = "touch"
    /\ IF ok
       THEN /\ startPc' = [startPc EXCEPT ![jobId] = "monitoring"]
            /\ outputBuffer' = [outputBuffer EXCEPT ![jobId] = SeedBuffer]
            /\ pollInterval' = [pollInterval EXCEPT ![jobId] = TRUE]
            /\ ceiling' = [ceiling EXCEPT ![jobId] = "pending"]
            /\ UNCHANGED <<storeVars, activeJobs>>
       ELSE /\ StartCatch(jobId, updOk)
            /\ UNCHANGED <<outputBuffer, pollInterval, ceiling>>
    /\ UNCHANGED <<firestore, gen, proj, age, authUrl, isWaitingForAuth, isProcessComplete,
                   tick, polls, resp, hist>>

----------------------------------------------------------------------------
(* monitorShopifyCliProcess: the interval callback                         *)

\* what `cat /tmp/shopify_output.log` may print
LogTexts == { <<>>,
              <<LDownload>>,
              <<LDownload, LVisit(U1)>>,
              <<LDownload, LSuccess>> }

\* what the foreground re-run of the CLI may print (stdout + stderr)
ProbeTexts == { <<>>, <<LVisit(U2)>>, <<LLogin>>, <<LUnknown>> }

\* what `ls -la` of the project directory may print
Listings == { <<>>, <<<<"package.json">>>>, <<<<"package.json">>, <<"app">>>> }

SetTick(jobId, t, rec) == tick' = [tick EXCEPT ![jobId][t] = rec]

\* lines 1202-1272: the buffer is extended and the job is updated.  The
\* parameters are the tick's locals and the closure variables as the part of
\* the callback that ran just before left them.
Post(jobId, t, running, newLines, au, wa, ipc, found, updOk) ==
    LET ob1 == outputBuffer[jobId] \o newLines
        last == <<ob1[Len(ob1)]>>
    IN
    IF ipc
    THEN \* completion branch, up to `await saveShopifyAppMetadata`
         /\ outputBuffer' = [outputBuffer EXCEPT ![jobId] = ob1 \o <<LCreated, LGenerated, LSetup>>]
         /\ authUrl' = [authUrl EXCEPT ![jobId] = au]
         /\ isWaitingForAuth' = [isWaitingForAuth EXCEPT ![jobId] = wa]
         /\ isProcessComplete' = [isProcessComplete EXCEPT ![jobId] = TRUE]
         /\ SetTick(jobId, t, [pc |-> "save", isProcessRunning |-> running,
                               newOutputLines |-> <<>>, found |-> found])
         /\ UNCHANGED storeVars
    ELSE IF au # Null /\ wa
    THEN /\ outputBuffer' = [outputBuffer EXCEPT ![jobId] = ob1]
         /\ authUrl' = [authUrl EXCEPT ![jobId] = au]
         /\ isWaitingForAuth' = [isWaitingForAuth EXCEPT ![jobId] = wa]
         /\ isProcessComplete' = [isProcessComplete EXCEPT ![jobId] = FALSE]
         /\ SetTick(jobId, t, IdleTick)
         /\ updateAppCreationJob(jobId,
                [output |-> ob1, outRef |-> TRUE, authUrl |-> au, stage |-> "waiting_auth"], updOk)
    ELSE IF ~running /\ Len(ob1) > 3
    THEN IF Includes(last, "success") \/ Includes(last, "complete")
         THEN /\ outputBuffer' = [outputBuffer EXCEPT ![jobId] = ob1]
              /\ authUrl' = [authUrl EXCEPT ![jobId] = au]
              /\ isWaitingForAuth' = [isWaitingForAuth EXCEPT ![jobId] = wa]
              /\ isProcessComplete' = [isProcessComplete EXCEPT ![jobId] = TRUE]
              /\ SetTick(jobId, t, IdleTick)
              /\ updateAppCreationJob(jobId,
                     [output |-> ob1, outRef |-> TRUE, stage |-> "completed"], updOk)
         ELSE /\ outputBuffer' = [outputBuffer EXCEPT ![jobId] = ob1 \o <<LPaused>>]
              /\ authUrl' = [authUrl EXCEPT ![jobId] = IF au = Null THEN GenericUrl ELSE au]
              /\ isWaitingForAuth' = [isWaitingForAuth EXCEPT ![jobId] = wa]
              /\ isProcessComplete' = [isProcessComplete EXCEPT ![jobId] = FALSE]
              /\ SetTick(jobId, t, IdleTick)
              /\ updateAppCreationJob(jobId,
                     IF au = Null
                     THEN [output |-> ob1 \o <<LPaused>>, outRef |-> TRUE,
                           authUrl |-> GenericUrl, stage |-> "waiting_auth"]
                     ELSE [output |-> ob1 \o <<LPaused>>, outRef |-> TRUE,
                           stage |-> "waiting_auth"], updOk)
    ELSE /\ outputBuffer' = [outputBuffer EXCEPT ![jobId] = ob1]
         /\ authUrl' = [authUrl EXCEPT ![jobId] = au]
         /\ isWaitingForAuth' = [isWaitingForAuth EXCEPT ![jobId] = wa]
         /\ isProcessComplete' = [isProcessComplete EXCEPT ![jobId] = FALSE]
         /\ SetTick(jobId, t, IdleTick)
         /\ updateAppCreationJob(jobId,
                [output |-> ob1, outRef |-> TRUE, stage |-> determineStage(ob1)], updOk)

\* a step of the callback that only moves to its next await
Await(jobId, t, rec) ==
    /\ SetTick(jobId, t, rec)
    /\ UNCHANGED <<storeVars, outputBuffer, authUrl, isWaitingForAuth, isProcessComplete>>

FreeSlot(jobId) == Min({t \in 1..MaxTicks : tick[jobId][t].pc = "idle"})

\* the interval fires: the guard of lines 1099-1103, then the process-list query is sent
PollFire(jobId) ==
    /\ pollInterval[jobId]
    /\ polls[jobId] < MaxPolls
    /\ \E t \in 1..MaxTicks : tick[jobId][t].pc = "idle"
    /\ IF ~activeJobs[jobId] \/ isProcessComplete[jobId]
       THEN /\ pollInterval' = [pollInterval EXCEPT ![jobId] = FALSE]
            /\ UNCHANGED <<tick, polls>>
       ELSE /\ SetTick(jobId, FreeSlot(jobId), [IdleTick EXCEPT !.pc = "ps"])
            /\ polls' = [polls EXCEPT ![jobId] = @ + 1]
            /\ UNCHANGED pollInterval
    /\ UNCHANGED <<firestore, gen, proj, storeVars, activeJobs, age, startPc, outputBuffer, authUrl,
                   isWaitingForAuth, isProcessComplete, ceiling, resp, hist>>

\* `ps aux | grep shopify` resolves; a rejection ends the callback in the outer catch
PsDone(jobId, t, out) ==
    /\ tick[jobId][t].pc = "ps"
    /\ IF out = "throw"
       THEN Await(jobId, t, IdleTick)
       ELSE Await(jobId, t, [tick[jobId][t] EXCEPT !.pc = "cat",
                                                   !.isProcessRunning = (out = "running")])
    /\ UNCHANGED <<firestore, gen, proj, activeJobs, age, startPc, pollInterval, ceiling, polls, resp, hist>>

\* `cat` of the log resolves: new lines are collected and the auth URL is extracted
CatDone(jobId, t, ok, log, updOk) ==
    /\ tick[jobId][t].pc = "cat"
    /\ LET me == tick[jobId][t]
           nl == IF log = <<>> THEN <<>> ELSE NewLines(log, outputBuffer[jobId])
           foundAuthUrl == IF log # <<>> /\ authUrl[jobId] = Null
                           THEN extractAuthUrl(log) ELSE Null
       IN IF ~ok
          THEN Post(jobId, t, me.isProcessRunning, <<>>, authUrl[jobId],
                    isWaitingForAuth[jobId], isProcessComplete[jobId], FALSE, updOk)
          ELSE IF foundAuthUrl # Null
          THEN /\ authUrl' = [authUrl EXCEPT ![jobId] = foundAuthUrl]
               /\ isWaitingForAuth' = [isWaitingForAuth EXCEPT ![jobId] = TRUE]
               /\ SetTick(jobId, t, [me EXCEPT !.pc = "ls",
                        !.newOutputLines = nl \o <<LAuthRequired(foundAuthUrl)>>])
               /\ UNCHANGED <<storeVars, outputBuffer, isProcessComplete>>
          ELSE Await(jobId, t, [me EXCEPT !.pc = "ls", !.newOutputLines = nl])
    /\ UNCHANGED <<firestore, gen, proj, activeJobs, age, startPc, pollInterval, ceiling, polls, resp, hist>>

\* `ls -la /tmp/app/` resolves; its output is only logged
LsDone(jobId, t, ok, updOk) ==
    /\ tick[jobId][t].pc = "ls"
    /\ LET me == tick[jobId][t] IN
       IF ok THEN Await(jobId, t, [me EXCEPT !.pc = "appdir"])
       ELSE Post(jobId, t, me.isProcessRunning, me.newOutputLines, authUrl[jobId],
                 isWaitingForAuth[jobId], isProcessComplete[jobId], FALSE, updOk)
    /\ UNCHANGED <<firestore, gen, proj, activeJobs, age, startPc, pollInterval, ceiling, polls, resp, hist>>

\* the probe of the project directory resolves
AppDirDone(jobId, t, out, updOk) ==
    /\ tick[jobId][t].pc = "appdir"
    /\ LET me == tick[jobId][t] IN
       IF out = "exists"
       THEN /\ Await(jobId, t, [me EXCEPT !.pc = "files"])
            /\ UNCHANGED hist
       ELSE IF out = "absent" /\ ~me.isProcessRunning /\ authUrl[jobId] = Null
       THEN /\ Await(jobId, t, [me EXCEPT !.pc = "authcheck"])
            /\ hist' = [hist EXCEPT ![jobId].probes = @ + 1]
       ELSE /\ Post(jobId, t, me.isProcessRunning, me.newOutputLines, authUrl[jobId],
                    isWaitingForAuth[jobId], isProcessComplete[jobId], FALSE, updOk)
            /\ UNCHANGED hist
    /\ UNCHANGED <<firestore, gen, proj, activeJobs, age, startPc, pollInterval, ceiling, polls, resp>>

\* the listing of the project directory resolves: completion markers are looked for
FilesDone(jobId, t, ok, listing, updOk) ==
    /\ tick[jobId][t].pc = "files"
    /\ LET me == tick[jobId][t]
           complete == ok /\ listing # <<>> /\ Includes(listing, "package.json")
                          /\ Includes(listing, "app")
       IN /\ Post(jobId, t, me.isProcessRunning, me.newOutputLines, authUrl[jobId],
                  isWaitingForAuth[jobId], isProcessComplete[jobId] \/ complete,
                  complete, updOk)
          /\ hist' = [hist EXCEPT ![jobId].markers = @ \/ complete]
    /\ UNCHANGED <<firestore, gen, proj, activeJobs, age, startPc, pollInterval, ceiling, polls, resp>>

\* the diagnostic re-run of the CLI resolves (a rejection is caught on the spot)
AuthCheckDone(jobId, t, ok, out, updOk) ==
    /\ tick[jobId][t].pc = "authcheck"
    /\ LET me == tick[jobId][t]
           foundAuthUrl == IF ok /\ out # <<>> THEN extractAuthUrl(out) ELSE Null
           generic == ok /\ out # <<>> /\ foundAuthUrl = Null
                      /\ (Includes(out, "Authentication") \/ Includes(out, "login")
                          \/ Includes(out, "auth"))
           au == IF foundAuthUrl # Null THEN foundAuthUrl
                 ELSE IF generic THEN GenericUrl ELSE authUrl[jobId]
           wa == IF foundAuthUrl # Null \/ generic THEN TRUE ELSE isWaitingForAuth[jobId]
       IN Post(jobId, t, me.isProcessRunning, me.newOutputLines, au, wa,
               isProcessComplete[jobId], FALSE, updOk)
    /\ UNCHANGED <<firestore, gen, proj, activeJobs, age, startPc, pollInterval, ceiling, polls, resp, hist>>

\* saveShopifyAppMetadata resolves or rejects (it cannot reject without Firestore);
\* the active entry is dropped, the interval cleared and the job updated
SaveDone(jobId, t, ok, updOk) ==
    /\ tick[jobId][t].pc = "save"
    /\ ok \/ firestore
    /\ updateAppCreationJob(jobId,
           IF ok
           THEN [stage |-> "completed", status |-> "completed",
                 appData |-> IF firestore THEN "appMetadata" ELSE Undefined,
                 output |-> outputBuffer[jobId], outRef |-> TRUE]
           ELSE [output |-> outputBuffer[jobId], outRef |-> TRUE], updOk)
    /\ activeJobs' = [activeJobs EXCEPT ![jobId] = FALSE]
    /\ pollInterval' = [pollInterval EXCEPT ![jobId] = FALSE]
    /\ SetTick(jobId, t, IdleTick)
    /\ UNCHANGED <<firestore, gen, proj, age, startPc, outputBuffer, authUrl, isWaitingForAuth,
                   isProcessComplete, ceiling, polls, resp, hist>>

----------------------------------------------------------------------------
(* Timers                                                                  *)

\* the setTimeout of 25 minutes
CeilingTimeout(jobId, updOk) ==
    /\ ceiling[jobId] = "pending"
    /\ ceiling' = [ceiling EXCEPT ![jobId] = "fired"]
    /\ pollInterval' = [pollInterval EXCEPT ![jobId] = FALSE]
    /\ IF activeJobs[jobId] /\ ~isProcessComplete[jobId]
       THEN /\ updateAppCreationJob(jobId,
                   [status |-> "failed", stage |-> "error", error |-> "timed out"], updOk)
            /\ activeJobs' = [activeJobs EXCEPT ![jobId] = FALSE]
       ELSE UNCHANGED <<storeVars, activeJobs>>
    /\ UNCHANGED <<firestore, gen, proj, age, startPc, outputBuffer, authUrl, isWaitingForAuth,
                   isProcessComplete, tick, polls, resp, hist>>

\* Time passes: the job's startTime becomes more than 30 minutes old.  The
\* monitor starts within five minutes of startTime, so the 25-minute timeout
\* has run by then.
AgeOut(jobId) ==
    /\ activeJobs[jobId]
    /\ startPc[jobId] = "monitoring"
    /\ ceiling[jobId] = "fired"
    /\ age[jobId] = 0
    /\ age' = [age EXCEPT ![jobId] = 1]
    /\ UNCHANGED <<firestore, gen, proj, storeVars, activeJobs, startPc, monitorVars, resp, hist>>

\* a sweep that takes every active job for abandoned
AbandonedAny(jobId) == activeJobs[jobId]

Abandoned(jobId) == activeJobs[jobId] /\ age[jobId] = 1

\* cleanupAbandonedJobs, run every 10 minutes, goes through the entries of
\* activeJobs; oks[j] tells whether the Firestore update for job j succeeds
cleanupAbandonedJobs(oks) ==
    /\ \E j \in DOMAIN activeJobs : Abandoned(j)
    /\ activeJobs' = [j \in DOMAIN activeJobs |-> activeJobs[j] /\ ~Abandoned(j)]
    /\ LET r == [j \in DOMAIN activeJobs |->
                    IF Abandoned(j)
                    THEN UpdateJob(inMemoryJobs[j], durableJobs[j],
                            [status |-> "failed", stage |-> "error",
                             error |-> "abandoned"], oks[j])
                    ELSE <<inMemoryJobs[j], durableJobs[j]>>]
       IN /\ inMemoryJobs' = [j \in DOMAIN activeJobs |-> r[j][1]]
          /\ durableJobs' = [j \in DOMAIN activeJobs |-> r[j][2]]
    /\ UNCHANGED <<firestore, gen, proj, age, startPc, monitorVars, resp, hist>>

----------------------------------------------------------------------------
(* Specification                                                           *)

AppName == <<Alnum>>

Next ==
    \/ \E j \in Jobs, setOk, updOk \in BOOLEAN :
          CreateShopifyApp(AppName, Owner, j, setOk, updOk)
    \/ \E j \in Jobs, u \in Users, readOk, updOk \in BOOLEAN :
          CompleteAppSetup(j, u, readOk, updOk)
    \/ \E j \in Jobs, ok, updOk \in BOOLEAN : StartSandboxCreated(j, ok, updOk)
    \/ \E j \in Jobs, ok, updOk \in BOOLEAN : StartCdDone(j, ok, updOk)
    \/ \E j \in Jobs, ok, updOk \in BOOLEAN : StartCliLaunched(j, ok, updOk)
    \/ \E j \in Jobs, ok, updOk \in BOOLEAN : StartMonitor(j, ok, updOk)
    \/ \E j \in Jobs : PollFire(j)
    \/ \E j \in Jobs, t \in 1..MaxTicks, out \in {"running", "stopped", "throw"} :
          PsDone(j, t, out)
    \/ \E j \in Jobs, t \in 1..MaxTicks, ok, updOk \in BOOLEAN, log \in LogTexts :
          CatDone(j, t, ok, log, updOk)
    \/ \E j \in Jobs, t \in 1..MaxTicks, ok, updOk \in BOOLEAN : LsDone(j, t, ok, updOk)
    \/ \E j \in Jobs, t \in 1..MaxTicks, out \in {"exists", "absent", "throw"},
          updOk \in BOOLEAN : AppDirDone(j, t, out, updOk)
    \/ \E j \in Jobs, t \in 1..MaxTicks, ok, updOk \in BOOLEAN, listing \in Listings :
          FilesDone(j, t, ok, listing, updOk)
    \/ \E j \in Jobs, t \in 1..MaxTicks, ok, updOk \in BOOLEAN, out \in ProbeTexts :
          AuthCheckDone(j, t, ok, out, updOk)
    \/ \E j \in Jobs, t \in 1..MaxTicks, ok, updOk \in BOOLEAN : SaveDone(j, t, ok, updOk)
    \/ \E j \in Jobs, updOk \in BOOLEAN : CeilingTimeout(j, updOk)
    \/ \E j \in Jobs : AgeOut(j)
    \/ \E oks \in [Jobs -> BOOLEAN] : cleanupAbandonedJobs(oks)

Spec == Init /\ [][Next]_vars

\* the create handler with every app name of the bound, and the start path
NextStart ==
    \/ \E n \in Names, j \in Jobs, setOk, updOk \in BOOLEAN :
          CreateShopifyApp(n, Owner, j, setOk, updOk)
    \/ \E j \in Jobs, u \in Users, readOk, updOk \in BOOLEAN :
          CompleteAppSetup(j, u, readOk, updOk)
    \/ \E j \in Jobs, ok, updOk \in BOOLEAN : StartSandboxCreated(j, ok, updOk)
    \/ \E j \in Jobs, ok, updOk \in BOOLEAN : StartCdDone(j, ok, updOk)
    \/ \E j \in Jobs, ok, updOk \in BOOLEAN : StartCliLaunched(j, ok, updOk)
    \/ \E j \in Jobs, ok, updOk \in BOOLEAN : StartMonitor(j, ok, updOk)

SpecStart == Init /\ [][NextStart]_vars

----------------------------------------------------------------------------
(* Properties                                                              *)

\* the JobRecord of a job: the entry getAppCreationJob would find
RecordOf(mem, dur, jobId) == IF mem[jobId] # NoJob THEN mem[jobId] ELSE dur[jobId]
Record(jobId) == RecordOf(inMemoryJobs, durableJobs, jobId)
RecordNext(jobId) == RecordOf(inMemoryJobs', durableJobs', jobId)
HasRecord(jobId) == Record(jobId) # NoJob

TerminalStages == {"completed", "error"}
TerminalStatuses == {"completed", "failed"}

TicksIdle(jobId) == \A t \in 1..MaxTicks : tick[jobId][t].pc = "idle"

\* a step in which an interval callback calls updateAppCreationJob (every way
\* out of the callback after the process-list query does) or extends the buffer
TickWrites(jobId) ==
    \/ \E t \in 1..MaxTicks : tick[jobId][t].pc \notin {"idle", "ps"}
                              /\ tick'[jobId][t].pc = "idle"
    \/ outputBuffer'[jobId] # outputBuffer[jobId]

\* C1: once the stage of a job record is completed or error, no step changes it.
C1_TerminalStageKept ==
    [][\A j \in Jobs :
         (HasRecord(j) /\ Record(j).stage \in TerminalStages)
            => RecordNext(j).stage = Record(j).stage]_vars

\* C2: the status of a job record changes only from running: a completed or
\* failed record keeps its status in every step.
C2_StatusMonotonic ==
    [][\A j \in Jobs :
         (HasRecord(j) /\ Record(j).status \in TerminalStatuses)
            => RecordNext(j).status = Record(j).status]_vars

\* C3: when the status of a job is completed or failed, no interval callback
\* (one already in flight included) updates the job or appends to its output.
C3_NoTickWriteAfterTerminal ==
    [][\A j \in Jobs :
         (HasRecord(j) /\ Record(j).status \in TerminalStatuses)
            => ~TickWrites(j)]_vars

\* C4: when the 25-minute timeout runs for a job whose monitor saw no completion
\* markers, the job record is left with status failed and stage error, and the
\* poll interval is cancelled.
C4_CeilingForcesFailure ==
    [][\A j \in Jobs :
         (ceiling[j] = "pending" /\ ceiling'[j] = "fired" /\ ~hist[j].markers)
            => /\ RecordNext(j).status = "failed"
               /\ RecordNext(j).stage = "error"
               /\ ~pollInterval'[j]]_vars

\* C5: no monitored job stays running forever.  A job whose interval is
\* cleared, whose timeout has run, which has left activeJobs and has no callback
\* in flight is never written again by a timer, so by then its status must be
\* completed or failed.
C5_QuiescentJobIsTerminal ==
    \A j \in Jobs :
        (startPc[j] = "monitoring" /\ ~pollInterval[j] /\ ceiling[j] = "fired"
         /\ ~activeJobs[j] /\ TicksIdle(j))
            => Record(j).status \in TerminalStatuses

\* C6: the interval callback whose directory listing showed package.json and an
\* app entry leaves the job record with stage completed and status completed.
C6_MarkersComplete ==
    [][\A j \in Jobs, t \in 1..MaxTicks :
         (tick[j][t].pc = "save" /\ tick[j][t].found /\ tick'[j][t].pc = "idle")
            => /\ RecordNext(j).stage = "completed"
               /\ RecordNext(j).status = "completed"]_vars

\* C7: once the authUrl of a job record is non-null, no step changes it.
C7_AuthUrlStable ==
    [][\A j \in Jobs :
         (HasRecord(j) /\ Record(j).authUrl # Null)
            => RecordNext(j).authUrl = Record(j).authUrl]_vars

AllowList(name) ==
    name # <<>> /\ \A i \in 1..Len(name) : name[i] \in {Alnum, Space, Dash}
Blank(name) == \A i \in 1..Len(name) : name[i] = Space

\* the create handler has just answered the request for `name`
Answered == resp' # resp /\ resp'.op = "create"

\* the request was accepted: a job id is returned and a get that reaches the
\* backend finds the record running and initializing
Started ==
    /\ resp'.code = 200
    /\ resp'.job \in Jobs
    /\ LET r == GetJob(inMemoryJobs', durableJobs', outputBuffer', resp'.job, TRUE) IN
          r # NoJob /\ r.status = "running" /\ r.stage = "initializing"

C10_OutsideCharRejected ==
    [][(Answered /\ \E i \in 1..Len(resp'.name) :
                        resp'.name[i] \notin {Alnum, Space, Dash})
          => /\ resp'.code = 400
             /\ UNCHANGED <<inMemoryJobs, durableJobs, startPc, activeJobs>>]_vars

----------------------------------------------------------------------------
(* The output of a job record                                              *)

\* the output array a reader of the job's record sees
Output(jobId) == ResolveOutput(Record(jobId), outputBuffer[jobId])
OutputNext(jobId) == ResolveOutput(RecordNext(jobId), outputBuffer'[jobId])

IsPrefix(s, t) == Len(s) <= Len(t) /\ SubSeq(t, 1, Len(s)) = s

NoRepeat(s) == \A i, k \in 1..Len(s) : s[i] = s[k] => i = k

\* C17: in every step the output of a job record before the step is a prefix
\* of its output after the step.
C17_OutputAppendOnly ==
    [][\A j \in Jobs : (HasRecord(j) /\ RecordNext(j) # NoJob)
            => IsPrefix(Output(j), OutputNext(j))]_vars

\* C18: the output of a job record never holds the same line twice.
C18_NoDuplicateLine ==
    \A j \in Jobs : HasRecord(j) => NoRepeat(Output(j))

\* C19: a step from a state where the job's status is running never shortens
\* the output stored in its record.
C19_OutputLengthMonotonic ==
    [][\A j \in Jobs : (HasRecord(j) /\ Record(j).status = "running"
                        /\ RecordNext(j) # NoJob)
            => Len(OutputNext(j)) >= Len(Output(j))]_vars

\* a later tick has extended the output of a running job beyond the seed
C19_Witness ==
    /\ HasRecord("j1") /\ Record("j1").status = "running"
    /\ polls["j1"] = MaxPolls
    /\ Len(Output("j1")) >= 5

----------------------------------------------------------------------------
(* The job store on its own: createAppCreationJob, updateAppCreationJob    *)
(* and getAppCreationJob called in any order, every Firestore call         *)
(* succeeding or failing.  resp holds the last call and what it returned,  *)
(* hist the record the calls so far should have produced.                  *)

\* the updates the server passes to updateAppCreationJob
StoreUpdates ==
    { [stage |-> "initializing", status |-> "running"],
      [stage |-> "creating", sandboxId |-> "sbx",
       output |-> <<LSandbox, LInit>>, outRef |-> FALSE],
      [status |-> "failed", stage |-> "error", error |-> "start failed"],
      [authUrl |-> U1, stage |-> "waiting_auth",
       output |-> <<LSandbox, LInit, LRunning>>, outRef |-> FALSE] }

NoCall == [op |-> "none", job |-> Null, ok |-> TRUE, updates |-> <<>>,
           result |-> Undefined, threw |-> FALSE]

InitStore ==
    /\ firestore \in BOOLEAN
    /\ InitState
    /\ resp = NoCall
    /\ hist = [j \in Jobs |-> [expected |-> NoJob, outage |-> TRUE]]

\* createAppCreationJob(userId, appName); jobId is the fresh id of generateJobId
StoreCreate(jobId, userId, appName, setOk) ==
    /\ inMemoryJobs[jobId] = NoJob /\ durableJobs[jobId] = NoJob
    /\ LET c == CreateJob(jobId, userId, appName, setOk) IN
          /\ inMemoryJobs' = [inMemoryJobs EXCEPT ![jobId] = c[1]]
          /\ durableJobs' = [durableJobs EXCEPT ![jobId] = c[2]]
    /\ resp' = [op |-> "create", job |-> jobId, ok |-> setOk, updates |-> <<>>,
                result |-> [jobId |-> jobId, status |-> "running"], threw |-> FALSE]
    /\ hist' = [hist EXCEPT ![jobId] =
                   [expected |-> JobData(jobId, userId, appName), outage |-> ~setOk]]
    /\ UNCHANGED <<firestore, gen, proj, activeJobs, age, startPc, monitorVars>>

\* updateAppCreationJob(jobId, updates): its own try/catch and the outer one
\* keep every rejection inside the function
StoreUpdate(jobId, updates, ok) ==
    /\ updateAppCreationJob(jobId, updates, ok)
    /\ resp' = [op |-> "update", job |-> jobId, ok |-> ok, updates |-> updates,
                result |-> Undefined, threw |-> FALSE]
    /\ hist' = [hist EXCEPT ![jobId] =
                   [expected |-> IF @.expected = NoJob THEN NoJob
                                 ELSE [Merge(@.expected, updates) EXCEPT !.updatedAt = "iso"],
                    outage |-> @.outage /\ ~ok]]
    /\ UNCHANGED <<firestore, gen, proj, activeJobs, age, startPc, monitorVars>>

\* getAppCreationJob(jobId)
StoreGet(jobId, readOk) ==
    /\ resp' = [op |-> "get", job |-> jobId, ok |-> readOk, updates |-> <<>>,
                result |-> getAppCreationJob(jobId, readOk), threw |-> FALSE]
    /\ hist' = [hist EXCEPT ![jobId].outage = @ /\ ~readOk]
    /\ UNCHANGED <<firestore, gen, proj, storeVars, activeJobs, age, startPc, monitorVars>>

AgedRecord(rec) ==
    IF rec = NoJob THEN NoJob
    ELSE [rec EXCEPT !.createdAt = Aged(@), !.updatedAt = Aged(@)]

\* time passes: every stored timestamp now lies in the past
TimePasses ==
    /\ inMemoryJobs' = [j \in Jobs |-> AgedRecord(inMemoryJobs[j])]
    /\ durableJobs' = [j \in Jobs |-> AgedRecord(durableJobs[j])]
    /\ hist' = [j \in Jobs |-> [hist[j] EXCEPT !.expected = AgedRecord(@)]]
    /\ UNCHANGED <<firestore, gen, proj, activeJobs, age, startPc, monitorVars, resp>>

NextStore ==
    \/ \E j \in Jobs, u \in Users, setOk \in BOOLEAN : StoreCreate(j, u, AppName, setOk)
    \/ \E j \in Jobs, u \in StoreUpdates, ok \in BOOLEAN : StoreUpdate(j, u, ok)
    \/ \E j \in Jobs, readOk \in BOOLEAN : StoreGet(j, readOk)
    \/ TimePasses

SpecStore == InitStore /\ [][NextStore]_vars

\* C11: with Firestore configured and every call to it failing, a get after a
\* create and any updates returns the created record with the updates merged
\* in order, and neither update nor get throws.
C11_OutageRoundTrip ==
    [][\A j \in Jobs, readOk \in BOOLEAN :
          (StoreGet(j, readOk) /\ firestore /\ hist'[j].outage
                /\ hist[j].expected # NoJob)
             => /\ resp'.result = hist[j].expected
                /\ ~resp'.threw /\ ~resp.threw]_vars

\* a get during the outage returned the record with two updates merged
C11_Witness ==
    /\ firestore /\ hist["j1"].outage
    /\ resp.op = "get" /\ resp.result # NoJob
    /\ resp.result.stage = "error" /\ resp.result.sandboxId = "sbx"
    /\ resp.result.updatedAt = "iso" /\ resp.result.createdAt = "isoOld"

\* the fields an update names (outRef only tells how output is passed)
Named(updates) == DOMAIN updates \ {"outRef"}

\* C12: an update whose Firestore call fails, on a job created in Firestore,
\* is visible to a get that follows it.
C12_FailedUpdateNotLost ==
    [][\A j \in Jobs, u \in StoreUpdates :
          (StoreUpdate(j, u, FALSE) /\ firestore /\ durableJobs[j] # NoJob)
             => LET r == GetJob(inMemoryJobs', durableJobs', outputBuffer', j, TRUE)
                IN r # NoJob /\ \A f \in Named(u) : r[f] = u[f]]_vars

\* the record get is specified to return
Found(jobId, readOk) ==
    IF inMemoryJobs[jobId] # NoJob THEN inMemoryJobs[jobId]
    ELSE IF firestore /\ readOk /\ durableJobs[jobId] # NoJob
         THEN [durableJobs[jobId] EXCEPT !.createdAt = ToIso(@), !.updatedAt = ToIso(@)]
         ELSE NoJob

\* C13: get returns the in-memory record if there is one, else the Firestore
\* record if Firestore is configured, holds it and can be read, else not-found
\* as a value; it never throws.
C13_GetPrecedence ==
    [][\A j \in Jobs, readOk \in BOOLEAN :
          StoreGet(j, readOk) => (resp'.result = Found(j, readOk) /\ ~resp'.threw)]_vars

\* a get returned the Firestore record of a job that is not in memory
C13_Witness ==
    /\ resp.op = "get" /\ resp.ok /\ resp.result # NoJob
    /\ inMemoryJobs["j1"] = NoJob /\ durableJobs["j1"] # NoJob
    /\ resp.result.stage = "waiting_auth" /\ resp.result.updatedAt = "isoOld"

Fresh == {"iso", "serverTimestamp"}

\* C14: an update of an existing record sets exactly the fields it names,
\* refreshes updatedAt and leaves every other field as it was.
C14_UpdateFrame ==
    [][\A j \in Jobs, u \in StoreUpdates, ok \in BOOLEAN :
          (StoreUpdate(j, u, ok) /\ HasRecord(j))
             => /\ RecordNext(j) # NoJob
                /\ \A f \in DOMAIN Record(j) :
                      IF f \in Named(u) THEN RecordNext(j)[f] = u[f]
                      ELSE IF f = "updatedAt" THEN RecordNext(j)[f] \in Fresh
                      ELSE IF f = "outRef" THEN TRUE
                      ELSE RecordNext(j)[f] = Record(j)[f]]_vars

\* C20: no job id has a record in both backends.
C20_OneRecordPerJob ==
    \A j \in Jobs : ~(inMemoryJobs[j] # NoJob /\ durableJobs[j] # NoJob)

\* with Firestore configured, a job whose creation fell back to memory was
\* updated while Firestore worked again, and is still in memory only
C20_Witness ==
    /\ firestore /\ inMemoryJobs["j1"] # NoJob /\ durableJobs["j1"] = NoJob
    /\ resp.op = "update" /\ resp.ok
    /\ inMemoryJobs["j1"].stage = "waiting_auth"

----------------------------------------------------------------------------
(* The job routes with their answers                                       *)

\* create, the start path, and the status and complete-setup routes called by
\* the owner and by another user
NextApi ==
    \/ \E j \in Jobs, setOk, updOk \in BOOLEAN :
          CreateShopifyApp(AppName, Owner, j, setOk, updOk)
    \/ \E j \in Jobs, u \in Users, readOk, updOk \in BOOLEAN :
          CompleteAppSetupAnswered(j, u, readOk, updOk)
    \/ \E j \in Jobs, u \in Users, readOk \in BOOLEAN : AppCreationStatus(j, u, readOk)
    \/ \E j \in Jobs, ok, updOk \in BOOLEAN : StartSandboxCreated(j, ok, updOk)
    \/ \E j \in Jobs, ok, updOk \in BOOLEAN : StartCdDone(j, ok, updOk)
    \/ \E j \in Jobs, ok, updOk \in BOOLEAN : StartCliLaunched(j, ok, updOk)
    \/ \E j \in Jobs, ok, updOk \in BOOLEAN : StartMonitor(j, ok, updOk)

SpecApi == Init /\ [][NextApi]_vars

\* the record can be read: it is in memory, or the Firestore read succeeds
Readable(jobId, readOk) == inMemoryJobs[jobId] # NoJob \/ readOk

\* the view shows the fields of the record
ViewOf(body, jobId) ==
    /\ body.status = Record(jobId).status /\ body.stage = Record(jobId).stage
    /\ body.output = Output(jobId) /\ body.authUrl = Record(jobId).authUrl
    /\ body.error = Record(jobId).error /\ body.appData = Record(jobId).appData

C16_AcknowledgeFrame ==
    [][\A j \in Jobs, u \in Users, readOk, updOk \in BOOLEAN :
          CompleteAppSetupAnswered(j, u, readOk, updOk)
             => IF HasRecord(j) /\ Record(j).userId = u
                THEN /\ RecordNext(j) # NoJob
                     /\ RecordNext(j).stage = "finalizing"
                     /\ RecordNext(j).status = "running"
                     /\ OutputNext(j) = Output(j)
                     /\ \A f \in {"authUrl", "error", "sandboxId", "appData"} :
                           RecordNext(j)[f] = Record(j)[f]
                ELSE UNCHANGED storeVars]_vars

----------------------------------------------------------------------------
(* The start path and the monitor: failures, fallbacks and timers          *)

\* the job record reads the same before and after the step
SameRecord(jobId) ==
    /\ HasRecord(jobId) <=> RecordNext(jobId) # NoJob
    /\ HasRecord(jobId) =>
          /\ OutputNext(jobId) = Output(jobId)
          /\ \A f \in DOMAIN Record(jobId) \ {"output", "outRef"} :
                RecordNext(jobId)[f] = Record(jobId)[f]

\* C22: when a step of the start path fails, the job record is failed / error
\* with an error message, the job is not in activeJobs and no timer of a
\* monitor is scheduled for it.
C22_StartFailureFailsJob ==
    [][\A j \in Jobs :
          (startPc[j] # "failed" /\ startPc'[j] = "failed")
             => /\ RecordNext(j) # NoJob
                /\ RecordNext(j).status = "failed" /\ RecordNext(j).stage = "error"
                /\ RecordNext(j).error # Null
                /\ ~activeJobs'[j]
                /\ ~pollInterval'[j] /\ ceiling'[j] = "none"]_vars

\* a step in which a sandbox query of the interval callback fails
SandboxQueryFails(jobId, t) ==
    \/ PsDone(jobId, t, "throw")
    \/ \E updOk \in BOOLEAN, log \in LogTexts : CatDone(jobId, t, FALSE, log, updOk)
    \/ \E updOk \in BOOLEAN : LsDone(jobId, t, FALSE, updOk)
    \/ \E updOk \in BOOLEAN : AppDirDone(jobId, t, "throw", updOk)
    \/ \E updOk \in BOOLEAN, listing \in Listings : FilesDone(jobId, t, FALSE, listing, updOk)
    \/ \E updOk \in BOOLEAN, out \in ProbeTexts : AuthCheckDone(jobId, t, FALSE, out, updOk)

\* C25: a tick in which a sandbox query fails leaves the job record and the
\* output buffer as they were.
C25_FailedQuerySkipsTick ==
    [][\A j \in Jobs, t \in 1..MaxTicks :
          SandboxQueryFails(j, t) => (SameRecord(j) /\ UNCHANGED outputBuffer)]_vars

\* C27: a tick that ran the diagnostic probe (process not alive, no project
\* directory, no auth URL from the log) and got no URL from it writes stage
\* waiting_auth with a non-null authUrl and keeps status running.
C27_InconclusiveFallsBack ==
    [][\A j \in Jobs, t \in 1..MaxTicks, ok, updOk \in BOOLEAN, out \in ProbeTexts :
          (AuthCheckDone(j, t, ok, out, updOk) /\ authUrl[j] = Null /\ HasRecord(j)
             /\ Record(j).status = "running"
             /\ (~ok \/ out = <<>> \/ extractAuthUrl(out) = Null))
             => /\ RecordNext(j).stage = "waiting_auth"
                /\ RecordNext(j).authUrl # Null
                /\ RecordNext(j).status = "running"]_vars

\* C28: a job whose record is completed or failed has no timer scheduled.
C28_TerminalClearsTimers ==
    \A j \in Jobs :
       (HasRecord(j) /\ Record(j).status \in TerminalStatuses)
          => (~pollInterval[j] /\ ceiling[j] # "pending")

RECURSIVE Count(_, _)
Count(s, x) == IF s = <<>> THEN 0
               ELSE (IF Head(s) = x THEN 1 ELSE 0) + Count(Tail(s), x)

\* The completion branch pushes its three lines and calls
\* saveShopifyAppMetadata in one synchronous run, so the buffer holds its
\* first line once for every call of saveShopifyAppMetadata.
CompletionRuns(jobId) == Count(outputBuffer[jobId], LCreated)

\* C29: the completion lines are appended, and the app metadata saved, at
\* most once for a job.
C29_CompletionOnce ==
    \A j \in Jobs : CompletionRuns(j) <= 1

\* C26: the diagnostic re-run of the CLI is started at most once for a job.
C26_ProbeOnce ==
    \A j \in Jobs : hist[j].probes <= 1

----------------------------------------------------------------------------
(* The stage classifier on its own                                         *)

MaxLines == 2       \* lines of the texts the classifier is given

\* lines the CLI may print, with keywords of every group among them
StageLines ==
    { LInit, LDownload, LSuccess, LLogin, LVisit(U1), <<GenericUrl>>,
      <<"Creating app">>, <<"Authenticating with Shopify">>, <<"Completing setup">>,
      <<"Finalizing app">>, <<"Installing dependencies">>, <<"Done">> }

StageTexts == UNION {[1..n -> StageLines] : n \in 0..MaxLines}

\* determineStage(output) is called on a text; the function keeps no state,
\* so one call from the initial state per text covers it
DetermineStage(text) ==
    /\ resp.op = "none"
    /\ resp' = [op |-> "stage", code |-> 0, name |-> <<>>, job |-> Null,
                text |-> text, result |-> determineStage(text)]
    /\ UNCHANGED <<firestore, gen, proj, storeVars, activeJobs, age, startPc, monitorVars, hist>>

NextStage == \E text \in StageTexts : DetermineStage(text)

SpecStage == Init /\ [][NextStage]_vars

\* the keyword groups in their fixed order
StageGroups ==
    << [stage |-> "creating", kws |-> {"creating app", "setting up", "initializing"}],
       [stage |-> "waiting_auth",
        kws |-> {"authentication", "auth", "visit", "partners.shopify.com"}],
       [stage |-> "authenticating", kws |-> {"authenticating", "completing"}],
       [stage |-> "finalizing",
        kws |-> {"finalizing", "finishing", "installing dependencies"}],
       [stage |-> "completed", kws |-> {"success", "completed", "done"}] >>

\* the groups with a keyword in the lower-cased text
Matching(text) ==
    {g \in 1..Len(StageGroups) : \E kw \in StageGroups[g].kws : IncludesLower(text, kw)}

\* C24: the classifier returns the stage of the first group, in the fixed
\* order, with a keyword in the lower-cased text, and creating when there is
\* none; the result is determined by the text.
C24_FirstGroupWins ==
    resp.op = "stage"
       => resp.result = IF Matching(resp.text) = {} THEN "creating"
                        ELSE StageGroups[Min(Matching(resp.text))].stage

\* a text with keywords of the groups waiting_auth and completed was
\* classified waiting_auth
C24_Witness ==
    /\ resp.op = "stage" /\ resp.text = <<LSuccess, LVisit(U1)>>
    /\ resp.result = "waiting_auth"

----------------------------------------------------------------------------
(* The abandoned-job sweep over two jobs                                   *)

JobsTwo == {"j1", "j2"}

InitSweep ==
    /\ firestore \in BOOLEAN
    /\ InitStateOver(JobsTwo)
    /\ resp = NoResp
    /\ hist = [j \in JobsTwo |-> [markers |-> FALSE, probes |-> 0]]

\* Two jobs are created and run along one course each: the start path
\* succeeds, a tick finds the process stopped and the log ending with a
\* success line while no project directory exists, the 25-minute timeout
\* passes, and the start time grows older than 30 minutes.
NextSweep ==
    \/ \E j \in JobsTwo, setOk \in BOOLEAN : CreateShopifyApp(AppName, Owner, j, setOk, TRUE)
    \/ \E j \in JobsTwo : StartSandboxCreated(j, TRUE, TRUE)
    \/ \E j \in JobsTwo : StartCdDone(j, TRUE, TRUE)
    \/ \E j \in JobsTwo : StartCliLaunched(j, TRUE, TRUE)
    \/ \E j \in JobsTwo : StartMonitor(j, TRUE, TRUE)
    \/ \E j \in JobsTwo : polls[j] = 0 /\ PollFire(j)
    \/ \E j \in JobsTwo : PsDone(j, 1, "stopped")
    \/ \E j \in JobsTwo : CatDone(j, 1, TRUE, <<LDownload, LSuccess>>, TRUE)
    \/ \E j \in JobsTwo : LsDone(j, 1, TRUE, TRUE)
    \/ \E j \in JobsTwo : AppDirDone(j, 1, "absent", TRUE)
    \/ \E j \in JobsTwo : AuthCheckDone(j, 1, TRUE, <<>>, TRUE)
    \/ \E j \in JobsTwo, updOk \in BOOLEAN : CeilingTimeout(j, updOk)
    \/ \E j \in JobsTwo : AgeOut(j)
    \/ \E oks \in [JobsTwo -> BOOLEAN] : cleanupAbandonedJobs(oks)

SpecSweep == InitSweep /\ [][NextSweep]_vars

\* C21: a run of the sweep removes every job older than 30 minutes from
\* activeJobs and writes status failed for it (the write takes effect when
\* the backend accepts it); every other job keeps its entry and its record.
C21_SweepRemovesOldOnly ==
    [][\A oks \in [JobsTwo -> BOOLEAN] :
          cleanupAbandonedJobs(oks)
             => \A j \in JobsTwo :
                   IF activeJobs[j] /\ age[j] = 1
                   THEN /\ ~activeJobs'[j]
                        /\ (inMemoryJobs[j] # NoJob \/ oks[j])
                              => (RecordNext(j).status = "failed"
                                  /\ RecordNext(j).stage = "error")
                   ELSE /\ activeJobs'[j] = activeJobs[j]
                        /\ SameRecord(j)]_vars

\* the sweep has failed the old job j1 while the younger job j2 is still
\* active and running
C21_Witness ==
    /\ ~activeJobs["j1"] /\ HasRecord("j1") /\ Record("j1").error = "abandoned"
    /\ Record("j1").status = "failed"
    /\ activeJobs["j2"] /\ age["j2"] = 0
    /\ HasRecord("j2") /\ Record("j2").status = "running"

----------------------------------------------------------------------------
(* POST /api/generate-code                                                 *)

MaxBlocks == 2

FileNames == {"server.js", "package.json"}
Contents == {"v1", "v2"}
Prompts == {"", "inventory tracker"}

\* a code block of the generated text: its file name (given or inferred)
\* and its content
Blocks == [name : FileNames, content : Contents]

\* the generated texts: sequences of up to MaxBlocks code blocks
GenTexts == UNION {[1..n -> Blocks] : n \in 0..MaxBlocks}

\* error.status of a rejected call; 0 stands for an error without one of
\* the statuses the handler tests
ErrorStatuses == {0, 400, 401, 429}

PreviewUrl == "https://host"
BasicPackageJson == "basic"

DeploySteps == {"provision", "mkdir", "write", "package", "ls", "server"}

RECURSIVE PutFile(_, _)
\* files[filename] = content: a known key keeps its place, a new key is
\* appended
PutFile(files, block) ==
    IF files = <<>> THEN <<block>>
    ELSE IF Head(files).name = block.name THEN <<block>> \o Tail(files)
    ELSE <<Head(files)>> \o PutFile(Tail(files), block)

RECURSIVE extractCodeBlocks(_)
extractCodeBlocks(generatedCode) ==
    IF generatedCode = <<>> THEN <<>>
    ELSE PutFile(extractCodeBlocks(SubSeq(generatedCode, 1, Len(generatedCode) - 1)),
                 generatedCode[Len(generatedCode)])

HasFile(files, name) == \E i \in 1..Len(files) : files[i].name = name

\* the catch of the handler: 401, 429 and 400 are passed on, everything
\* else is answered 500
ErrorResponse(status) ==
    [NoResponse EXCEPT !.status = IF status \in {400, 401, 429} THEN status ELSE 500,
                       !.error = CASE status = 401 -> "Authentication failed"
                                   [] status = 429 -> "Rate limit exceeded"
                                   [] status = 400 -> "Bad request"
                                   [] OTHER -> "Internal server error"]

\* the catch around the deployment: the generated code is returned
DeployFailedResponse(generatedCode) ==
    [NoResponse EXCEPT !.status = 200, !.success = TRUE, !.response = generatedCode,
                       !.error = "Failed to deploy to sandbox"]

DeployFailed(step) ==
    gen' = [gen EXCEPT !.pc = "done", !.failed = step,
                       !.response = DeployFailedResponse(gen.code)]

GenFrame ==
    UNCHANGED <<firestore, inMemoryJobs, durableJobs, activeJobs, age, startPc,
                monitorVars, resp, hist, proj>>

\* the request arrives; a missing prompt is answered 400
GenerateCode(prompt) ==
    /\ gen.pc \in {"idle", "done"}
    /\ gen' = IF prompt = ""
              THEN [GenIdle EXCEPT !.pc = "done", !.prompt = prompt,
                       !.response = [NoResponse EXCEPT !.status = 400,
                                        !.error = "Prompt is required"]]
              ELSE [GenIdle EXCEPT !.pc = "message", !.prompt = prompt]
    /\ GenFrame

\* anthropic.messages.create settles
GenMessageDone(ok, status, text) ==
    /\ gen.pc = "message"
    /\ gen' = IF ok THEN [gen EXCEPT !.pc = "create", !.code = text]
              ELSE [gen EXCEPT !.pc = "done", !.failed = "message",
                               !.response = ErrorResponse(status)]
    /\ GenFrame

\* Sandbox.create settles; the call stands before the try of the deployment
GenSandboxCreated(ok, status) ==
    /\ gen.pc = "create"
    /\ gen' = IF ok THEN [gen EXCEPT !.pc = "mkdir"]
              ELSE [gen EXCEPT !.pc = "done", !.failed = "provision",
                               !.response = ErrorResponse(status)]
    /\ GenFrame

\* where deployCodeToSandbox goes after the files written so far
AfterWrite(files, next) ==
    IF next <= Len(files) THEN "write"
    ELSE IF HasFile(files, "package.json") THEN "ls" ELSE "package"

\* deployCodeToSandbox: mkdir -p /tmp/app settles, the blocks are extracted
GenMkdirDone(ok) ==
    /\ gen.pc = "mkdir"
    /\ IF ok
       THEN LET files == extractCodeBlocks(gen.code)
            IN gen' = [gen EXCEPT !.files = files, !.next = 1,
                                  !.pc = AfterWrite(files, 1)]
       ELSE DeployFailed("mkdir")
    /\ GenFrame

\* deployCodeToSandbox: sandbox.files.write of the next file settles
GenFileWritten(ok) ==
    /\ gen.pc = "write"
    /\ IF ok
       THEN gen' = [gen EXCEPT !.next = @ + 1,
                               !.pc = AfterWrite(gen.files, gen.next + 1)]
       ELSE DeployFailed("write")
    /\ GenFrame

\* deployCodeToSandbox: the write of the basic package.json settles
GenPackageWritten(ok) ==
    /\ gen.pc = "package"
    /\ IF ok
       THEN gen' = [gen EXCEPT !.pc = "ls",
                       !.files = Append(@, [name |-> "package.json",
                                            content |-> BasicPackageJson])]
       ELSE DeployFailed("package")
    /\ GenFrame

\* ls -la /tmp/app settles
GenListDone(ok) ==
    /\ gen.pc = "ls"
    /\ IF ok THEN gen' = [gen EXCEPT !.pc = "server"] ELSE DeployFailed("ls")
    /\ GenFrame

\* the background command that starts the server settles
GenServerStarted(ok) ==
    /\ gen.pc = "server"
    /\ IF ok THEN gen' = [gen EXCEPT !.pc = "save"] ELSE DeployFailed("server")
    /\ GenFrame

\* after the 3 seconds: preview URL, project name, saveProject (which
\* returns a project id whether or not the save worked), response
GenSaved ==
    /\ gen.pc = "save"
    /\ gen' = [gen EXCEPT !.pc = "done",
                  !.response = [NoResponse EXCEPT !.status = 200, !.success = TRUE,
                                   !.response = gen.code, !.previewUrl = PreviewUrl,
                                   !.sandboxId = "sandbox", !.projectId = "project"]]
    /\ GenFrame

NextGenerate ==
    \/ \E prompt \in Prompts : GenerateCode(prompt)
    \/ \E ok \in BOOLEAN, status \in ErrorStatuses, text \in GenTexts :
          GenMessageDone(ok, status, text)
    \/ \E ok \in BOOLEAN, status \in ErrorStatuses : GenSandboxCreated(ok, status)
    \/ \E ok \in BOOLEAN : GenMkdirDone(ok)
    \/ \E ok \in BOOLEAN : GenFileWritten(ok)
    \/ \E ok \in BOOLEAN : GenPackageWritten(ok)
    \/ \E ok \in BOOLEAN : GenListDone(ok)
    \/ \E ok \in BOOLEAN : GenServerStarted(ok)
    \/ GenSaved

SpecGenerate == Init /\ [][NextGenerate]_vars

\* C23: when the generation succeeded and a step of the sandbox deployment
\* (provisioning, mkdir, writing a file, listing, starting the server) has
\* failed, the response carries the generated code with previewUrl null and
\* an error field.
C23_DeployFailureKeepsCode ==
    (gen.pc = "done" /\ gen.failed \in DeploySteps)
       => /\ gen.response.status = 200
          /\ gen.response.response = gen.code
          /\ gen.response.previewUrl = Null
          /\ gen.response.error # Null

----------------------------------------------------------------------------
(* The retention sweep of the job store                                    *)

\* a timestamp more than 24 hours before now
Expire(t) == IF t \in {"iso", "isoOld", "isoExpired"} THEN "isoExpired"
             ELSE "serverTimestampExpired"

ExpiredRecord(rec) ==
    IF rec = NoJob THEN NoJob
    ELSE [rec EXCEPT !.createdAt = Expire(@), !.updatedAt = Expire(@)]

\* more than 24 hours pass without a call to the store
DayPasses ==
    /\ inMemoryJobs' = [j \in Jobs |-> ExpiredRecord(inMemoryJobs[j])]
    /\ durableJobs' = [j \in Jobs |-> ExpiredRecord(durableJobs[j])]
    /\ hist' = [j \in Jobs |-> [hist[j] EXCEPT !.expected = ExpiredRecord(@)]]
    /\ UNCHANGED <<firestore, gen, proj, activeJobs, age, startPc, monitorVars, resp>>

\* where('createdAt', '<', cutoffTime) with cutoffTime a Date 24 hours ago:
\* the documents whose createdAt is a timestamp before the cutoff
MatchesCutoff(rec) == rec # NoJob /\ rec.createdAt = "serverTimestampExpired"

\* cleanupOldJobs, run every hour; queryOk and commitOk tell whether the
\* query and the batch commit succeed
cleanupOldJobs(queryOk, commitOk) ==
    /\ durableJobs' = IF firestore /\ queryOk /\ commitOk
                      THEN [j \in Jobs |-> IF MatchesCutoff(durableJobs[j])
                                           THEN NoJob ELSE durableJobs[j]]
                      ELSE durableJobs
    /\ resp' = [op |-> "cleanup", job |-> Null, ok |-> queryOk /\ commitOk,
                updates |-> <<>>, result |-> Undefined, threw |-> FALSE]
    /\ UNCHANGED <<firestore, gen, proj, inMemoryJobs, activeJobs, age, startPc,
                   monitorVars, hist>>

NextRetention ==
    \/ \E j \in Jobs, u \in Users, setOk \in BOOLEAN :
          hist[j].expected = NoJob /\ StoreCreate(j, u, AppName, setOk)
    \/ \E j \in Jobs, u \in StoreUpdates, ok \in BOOLEAN : StoreUpdate(j, u, ok)
    \/ \E j \in Jobs, readOk \in BOOLEAN : StoreGet(j, readOk)
    \/ TimePasses
    \/ DayPasses
    \/ \E queryOk \in BOOLEAN, commitOk \in BOOLEAN : cleanupOldJobs(queryOk, commitOk)

SpecRetention == InitStore /\ [][NextRetention]_vars

\* a record created more than 24 hours ago
PastRetention(rec) ==
    rec # NoJob /\ rec.createdAt \in {"isoExpired", "serverTimestampExpired"}

\* C30: after a run of the retention sweep (its backend calls succeeding) no
\* record older than 24 hours is left, neither in Firestore nor in the
\* in-process map.
C30_RetentionSweepDeletesOld ==
    [][cleanupOldJobs(TRUE, TRUE)
          => \A j \in Jobs : /\ ~PastRetention(inMemoryJobs'[j])
                             /\ ~PastRetention(durableJobs'[j])]_vars

----------------------------------------------------------------------------
(* Agreement of stage and status                                           *)

\* C32: in every job record, stage is completed exactly when status is
\* completed, and stage is error exactly when status is failed.
C32_StageStatusAgree ==
    \A j \in Jobs :
       HasRecord(j) =>
          /\ Record(j).stage = "completed" <=> Record(j).status = "completed"
          /\ Record(j).stage = "error" <=> Record(j).status = "failed"

----------------------------------------------------------------------------
(* The stages the monitor writes                                           *)

LFinalizing == <<"Finalizing app">>
LCompleting == <<"Completing setup">>

\* logs of a CLI that reports the later phases of its work
ProgressLogs == { <<>>,
                  <<LDownload>>,
                  <<LFinalizing>>,
                  <<LCompleting>>,
                  <<LDownload, LVisit(U1)>>,
                  <<LDownload, LSuccess>> }

\* a job whose store calls all succeed, monitored while its log file
\* reports authentication, completion and finalisation phases
NextProgress ==
    \/ \E j \in Jobs : CreateShopifyApp(AppName, Owner, j, TRUE, TRUE)
    \/ \E j \in Jobs : CompleteAppSetup(j, Owner, TRUE, TRUE)
    \/ \E j \in Jobs : StartSandboxCreated(j, TRUE, TRUE)
    \/ \E j \in Jobs : StartCdDone(j, TRUE, TRUE)
    \/ \E j \in Jobs : StartCliLaunched(j, TRUE, TRUE)
    \/ \E j \in Jobs : StartMonitor(j, TRUE, TRUE)
    \/ \E j \in Jobs : PollFire(j)
    \/ \E j \in Jobs, t \in 1..MaxTicks, out \in {"running", "stopped", "throw"} :
          PsDone(j, t, out)
    \/ \E j \in Jobs, t \in 1..MaxTicks, ok \in BOOLEAN, log \in ProgressLogs :
          CatDone(j, t, ok, log, TRUE)
    \/ \E j \in Jobs, t \in 1..MaxTicks, ok \in BOOLEAN : LsDone(j, t, ok, TRUE)
    \/ \E j \in Jobs, t \in 1..MaxTicks, out \in {"exists", "absent", "throw"} :
          AppDirDone(j, t, out, TRUE)
    \/ \E j \in Jobs, t \in 1..MaxTicks, ok \in BOOLEAN, listing \in Listings :
          FilesDone(j, t, ok, listing, TRUE)
    \/ \E j \in Jobs, t \in 1..MaxTicks, ok \in BOOLEAN, out \in ProbeTexts :
          AuthCheckDone(j, t, ok, out, TRUE)
    \/ \E j \in Jobs, t \in 1..MaxTicks, ok \in BOOLEAN : SaveDone(j, t, ok, TRUE)
    \/ \E j \in Jobs : CeilingTimeout(j, TRUE)

SpecProgress == Init /\ [][NextProgress]_vars

MonitorStages == {"creating", "waiting_auth", "completed", "error"}

\* a step of the monitor of the job: a tick or the 25-minute timeout
MonitorStep(jobId) == TickWrites(jobId) \/ ceiling'[jobId] # ceiling[jobId]

\* C33: a step of the monitor changes the stage of the record to creating,
\* waiting_auth, completed or error only; no record has stage
\* authenticating; and the stage becomes finalizing only in a step of
\* complete-app-setup.
C33_MonitorStages ==
    [][\A j \in Jobs :
          RecordNext(j) # NoJob =>
             /\ RecordNext(j).stage # "authenticating"
             /\ (HasRecord(j) /\ RecordNext(j).stage # Record(j).stage) =>
                   /\ MonitorStep(j) => RecordNext(j).stage \in MonitorStages
                   /\ RecordNext(j).stage = "finalizing" =>
                         CompleteAppSetup(j, Owner, TRUE, TRUE)]_vars

\* the log reported the finalisation phase, a tick appended the line and
\* wrote the record, and the stage it wrote is creating
C33_Witness ==
    /\ HasRecord("j1")
    /\ \E i \in 1..Len(Output("j1")) : Output("j1")[i] = LFinalizing
    /\ Record("j1").stage = "creating"
    /\ TicksIdle("j1") /\ polls["j1"] >= 1

----------------------------------------------------------------------------
(* Updates of unknown jobs                                                 *)

\* C34: an update for a job id that has a record in neither backend creates
\* no record in either backend and throws nothing, with Firestore
\* unconfigured, working or failing.
C34_UpdateOfUnknownJob ==
    [][\A j \in Jobs, u \in StoreUpdates, ok \in BOOLEAN :
          (StoreUpdate(j, u, ok) /\ inMemoryJobs[j] = NoJob /\ durableJobs[j] = NoJob)
             => /\ inMemoryJobs'[j] = NoJob
                /\ durableJobs'[j] = NoJob
                /\ ~resp'.threw]_vars

\* an update was called for a job that was never created, with Firestore
\* configured and accepting calls
C34_Witness ==
    /\ resp.op = "update" /\ resp.job = "j1" /\ resp.ok /\ firestore
    /\ hist["j1"].expected = NoJob
    /\ inMemoryJobs["j1"] = NoJob /\ durableJobs["j1"] = NoJob

----------------------------------------------------------------------------
(* Two jobs side by side                                                   *)

IsolationLogs == { <<LDownload, LVisit(U1)>>, <<LDownload, LSuccess>> }

\* what can happen for one job: its creation, the acknowledgement of its
\* owner, the steps of its start path (each of which may fail), one run of
\* its interval callback and its 25-minute timeout
JobActions(j) ==
    \/ CreateShopifyApp(AppName, Owner, j, TRUE, TRUE)
    \/ CompleteAppSetup(j, Owner, TRUE, TRUE)
    \/ \E ok \in BOOLEAN : StartSandboxCreated(j, ok, TRUE)
    \/ \E ok \in BOOLEAN : StartCdDone(j, ok, TRUE)
    \/ \E ok \in BOOLEAN : StartCliLaunched(j, ok, TRUE)
    \/ \E ok \in BOOLEAN : StartMonitor(j, ok, TRUE)
    \/ polls[j] = 0 /\ PollFire(j)
    \/ \E out \in {"running", "stopped"} : PsDone(j, 1, out)
    \/ \E log \in IsolationLogs : CatDone(j, 1, TRUE, log, TRUE)
    \/ LsDone(j, 1, TRUE, TRUE)
    \/ \E out \in {"exists", "absent"} : AppDirDone(j, 1, out, TRUE)
    \/ \E listing \in Listings : FilesDone(j, 1, TRUE, listing, TRUE)
    \/ \E out \in {<<>>, <<LLogin>>} : AuthCheckDone(j, 1, TRUE, out, TRUE)
    \/ SaveDone(j, 1, TRUE, TRUE)
    \/ CeilingTimeout(j, TRUE)

NextIsolation == \E j \in JobsTwo : JobActions(j)

SpecIsolation == InitSweep /\ [][NextIsolation]_vars

\* C35: a step of one job (tick, timeout, start path, acknowledgement)
\* leaves the record, the output buffer, the authUrl and the activeJobs
\* entry of every other job as they were.
C35_JobsIsolated ==
    [][\A j \in JobsTwo :
          JobActions(j) =>
             \A k \in JobsTwo \ {j} :
                /\ SameRecord(k)
                /\ outputBuffer'[k] = outputBuffer[k]
                /\ authUrl'[k] = authUrl[k]
                /\ activeJobs'[k] = activeJobs[k]]_vars

\* job j1 has been failed by its timeout while job j2 is still active and
\* waits for the authentication its own tick has found
C35_Witness ==
    /\ HasRecord("j1") /\ Record("j1").status = "failed"
    /\ ceiling["j1"] = "fired" /\ ~activeJobs["j1"]
    /\ HasRecord("j2") /\ Record("j2").stage = "waiting_auth"
    /\ Record("j2").status = "running"
    /\ authUrl["j2"] = U1 /\ activeJobs["j2"]

----------------------------------------------------------------------------
(* Project names and the project store                                     *)

\* the files of a generated project (codeBlocks after the deployment)
ProjectFiles == <<"server.js", "package.json">>

\* the projects of the user with a project.json in the bucket
StoredProjects(store) == {p \in ProjectIds : store[p] # NoProject}

ProjFrame ==
    UNCHANGED <<firestore, inMemoryJobs, durableJobs, activeJobs, age, startPc,
                monitorVars, resp, hist, gen>>

\* initializeFirebaseAdmin at start-up: bucket is assigned, or stays
\* undefined when the SDK is not configured or its initialisation throws
InitializeStorage(ok) ==
    /\ proj.bucket = "unset"
    /\ proj' = [proj EXCEPT !.bucket = IF ok THEN "ready" ELSE "none"]
    /\ ProjFrame

\* the request has deployed its code and calls generateEmailBasedProjectName
NameProject(r) ==
    /\ proj.bucket # "unset"
    /\ proj.run[r].pc = "idle"
    /\ proj' = [proj EXCEPT !.run[r].pc = "count",
                            !.run[r].after = {q \in Runs : proj.run[q].pc = "done"}]
    /\ ProjFrame

\* getUserProjects settles (without a bucket, or when the listing fails,
\* its result is the empty list); the name gets number length + 1.  Then
\* saveProject starts: without a bucket it returns a fresh id at once,
\* otherwise it takes a fresh id and saves project.json.
CountDone(r, listOk) ==
    /\ proj.run[r].pc = "count"
    /\ LET existing == IF proj.bucket = "ready" /\ listOk THEN StoredProjects(proj.store) ELSE {}
           number == Cardinality(existing) + 1
       IN proj' = IF proj.bucket = "ready"
                  THEN [proj EXCEPT !.run[r].pc = "meta", !.run[r].number = number,
                                    !.run[r].id = proj.nextId, !.nextId = @ + 1]
                  ELSE [proj EXCEPT !.run[r].pc = "done", !.run[r].number = number,
                                    !.run[r].projectId = proj.nextId, !.nextId = @ + 1]
    /\ ProjFrame

\* the catch of saveProject: a new id is generated and returned
SaveFailed(r) ==
    [proj EXCEPT !.run[r].pc = "done", !.run[r].projectId = proj.nextId,
                 !.nextId = @ + 1]

\* metadataFile.save settles
MetaSaved(r, ok) ==
    /\ proj.run[r].pc = "meta"
    /\ proj' = IF ok
               THEN [proj EXCEPT !.store[proj.run[r].id] =
                                     [name |-> proj.run[r].number, files |-> {}],
                                 !.run[r].pc = "files", !.run[r].next = 1]
               ELSE SaveFailed(r)
    /\ ProjFrame

\* file.save of the next code file settles; after the last one saveProject
\* returns the id it saved under
FileSaved(r, ok) ==
    /\ proj.run[r].pc = "files"
    /\ LET run == proj.run[r] IN
       proj' = IF ~ok THEN SaveFailed(r)
               ELSE IF run.next < Len(ProjectFiles)
               THEN [proj EXCEPT !.store[run.id].files = @ \cup {ProjectFiles[run.next]},
                                 !.run[r].next = @ + 1]
               ELSE [proj EXCEPT !.store[run.id].files = @ \cup {ProjectFiles[run.next]},
                                 !.run[r].pc = "done", !.run[r].projectId = run.id]
    /\ ProjFrame

NextProjects ==
    \/ \E ok \in BOOLEAN : InitializeStorage(ok)
    \/ \E r \in Runs : NameProject(r)
    \/ \E r \in Runs, listOk \in BOOLEAN : CountDone(r, listOk)
    \/ \E r \in Runs, ok \in BOOLEAN : MetaSaved(r, ok)
    \/ \E r \in Runs, ok \in BOOLEAN : FileSaved(r, ok)

SpecProjects == Init /\ [][NextProjects]_vars

\* the run has persisted its project: project.json and every file
Persisted(store, p) ==
    /\ p \in ProjectIds /\ store[p] # NoProject
    /\ store[p].files = {ProjectFiles[i] : i \in 1..Len(ProjectFiles)}

\* C36: the projectId a finished run returns is the id of a project stored
\* with its project.json and all of its files.
C36_ReturnedIdIsPersisted ==
    \A r \in Runs :
       proj.run[r].pc = "done" => Persisted(proj.store, proj.run[r].projectId)

\* the run has returned the id of a project it persisted
RunPersisted(p, r) ==
    p.run[r].pc = "done" /\ p.run[r].projectId = p.run[r].id
    /\ Persisted(p.store, p.run[r].id)

\* C31: the number of a project name is 1 + the number of the projects the
\* user has in the store when the run counts them; of two runs that both
\* persist, the one that started after the other had returned gets the
\* greater number; two runs that both counted before either saved anything
\* get the same number.
C31_OrdinalRecomputed ==
    [][/\ \A r \in Runs, listOk \in BOOLEAN :
             CountDone(r, listOk) =>
                proj'.run[r].number = 1 + Cardinality(StoredProjects(proj.store))
       /\ \A r, q \in Runs :
             (RunPersisted(proj', r) /\ RunPersisted(proj', q) /\ q \in proj'.run[r].after)
                => proj'.run[r].number > proj'.run[q].number
       /\ (\A r \in Runs : proj'.run[r].pc = "meta")
             => proj'.run[1].number = proj'.run[2].number]_vars

====
